---- MODULE Spec2Model ----
(***************************************************************************)
(* Model of summarize.py: the recursive, memoized summarization engine     *)
(* (gpt_summarize, summarization_token_parameters, summarize,              *)
(* synthesize_summaries) and the module-level script that drives it.       *)
(*                                                                         *)
(* A text is a sequence of tokens, so len(enc.encode(text)) is Len(text).  *)
(* The tokens are "w" (a word), "." (the division point), "[[[" and "]]]"  *)
(* (the delimiter markers) and "nn" (the blank line "\n\n" of the join).   *)
(* Token quantities are scaled down: the script's target sizes             *)
(* 500/750/1000, its context size 16000 and the synthesis limit 8192       *)
(* become small numbers that keep the same order relations.                *)
(*                                                                         *)
(* Two things are modelled at a finer grain than tokens: the removal of    *)
(* the markers by str.replace, character by character (SpecStrip), and     *)
(* the rounding of the float sum in the backoff's base wait.               *)
(***************************************************************************)
EXTENDS Integers, Sequences, FiniteSets, TLC

(* ------------------------------ bounds -------------------------------- *)

\* Longest input text (tokens).
MaxTextLen == 4
\* Longest completion the provider returns (tokens).
MaxCompletion == 2
\* Deepest call stack at which a text is still split (deeper invocations
\* that would split are not explored further).
MaxDepth == 1
\* Largest target_summary_size the call harness draws.
MaxTarget == 2
\* Largest model_context_size the call harness draws.
MaxCtx == 6
\* Longest text, in characters, on which the marker removal is applied
\* character by character.
MaxChars == 6

(* ------------------------- program constants -------------------------- *)

MAX_ATTEMPTS == 3

\* model_context_size=16000 of the script, scaled: as in the script, every
\* summary_input_size it yields is larger than its target_summary_size.
ModelContextSize == 11

\* The assert's 8192, scaled.
SynthPromptLimit == 12

\* The 53 bits of a float's significand, which are also the 53 bits of
\* random.random(), scaled.
FloatBits == 4

\* target_summary_sizes = [500, 750, 1000], scaled.
target_summary_sizes == <<1, 2, 3>>

\* division_point = "."
division_point == "."

L == "[[["
R == "]]]"
NN == "nn"

(* ------------------------------- texts -------------------------------- *)

RECURSIVE SeqsUpTo(_, _)
SeqsUpTo(S, n) ==
    IF n = 0 THEN {<<>>}
    ELSE LET shorter == SeqsUpTo(S, n - 1)
         IN  shorter \cup {Append(s, x) : s \in shorter, x \in S}

\* The input texts: words and sentence ends.
Texts == SeqsUpTo({"w", "."}, MaxTextLen) \ {<<>>}

\* A sentence of k tokens: words and the closing division point.
Sentence(k) == [j \in 1..k |-> IF j = k THEN "." ELSE "w"]

\* The books the script is run on: two sentences, short ones that fit one
\* call and long ones that are split, some into equal sections.
Books == {Sentence(a) \o Sentence(b) : a, b \in {1, 3, 5}}

\* What the provider may answer: any non-empty text of words.
Completions == SeqsUpTo({"w"}, MaxCompletion) \ {<<>>}

\* len(enc.encode(text))
NumTokens(text) == Len(text)

(* --------------------------- pure functions --------------------------- *)

\* num_tokens_from_messages(summarization_prompt_messages("", target)):
\* the tokens of the fixed prompt wrapper around an empty text body.
base_prompt_size(target) == 1

\* The prompt of one summarization call: the wrapper plus the text.
PromptTokens(text, target) == base_prompt_size(target) + NumTokens(text)

\* Mutant: the completion's tokens are not counted.
UsagePromptOnly(text, target, completion) == PromptTokens(text, target)

\* result.usage.total_tokens: prompt plus completion.
Usage(text, target, completion) ==
    PromptTokens(text, target) + NumTokens(completion)

summarization_token_parameters(target_summary_size, model_context_size) ==
    [target_summary_size |-> target_summary_size,
     summary_input_size  |->
        model_context_size
            - (base_prompt_size(target_summary_size) + target_summary_size)]

\* The last position <= max at which the boundary token stands, or max
\* itself (the hard cut) when no boundary lies within the budget.
CutPoint(text, max) ==
    LET ends == {i \in 1..max : text[i] = division_point}
    IN  IF ends = {} THEN max
        ELSE CHOOSE i \in ends : \A j \in ends : j <= i

\* split_text_into_sections(text, max, division_point, model_name), for
\* max > 0: contiguous sections of at most max tokens that concatenate to
\* the text.
RECURSIVE split_text_into_sections(_, _)
split_text_into_sections(text, max) ==
    IF NumTokens(text) <= max THEN <<text>>
    ELSE LET c == CutPoint(text, max)
         IN  <<SubSeq(text, 1, c)>>
                \o split_text_into_sections(SubSeq(text, c + 1, Len(text)), max)

\* Mutant: the summaries are joined last to first.
RECURSIVE JoinSummariesReversed(_)
JoinSummariesReversed(ss) ==
    IF ss = <<>> THEN <<>>
    ELSE IF Len(ss) = 1 THEN ss[1]
    ELSE JoinSummariesReversed(Tail(ss)) \o <<NN>> \o ss[1]

\* "\n\n".join(summaries)
RECURSIVE JoinSummaries(_)
JoinSummaries(ss) ==
    IF ss = <<>> THEN <<>>
    ELSE IF Len(ss) = 1 THEN ss[1]
    ELSE ss[1] \o <<NN>> \o JoinSummaries(Tail(ss))

\* Mutant: the completion is returned without the markers.
GptResultBare(completion) == completion

\* "[[[" + result.choices[0].message.content + "]]]"
GptResult(completion) == <<L>> \o completion \o <<R>>

IsMarker(tok) == tok \in {L, R}

HasMarkers(text) == \E i \in 1..Len(text) : IsMarker(text[i])

\* .replace("[[[", "").replace("]]]", "")
StripMarkers(text) == SelectSeq(text, LAMBDA tok : ~IsMarker(tok))

\* The texts seen character by character, as far as the markers go: the
\* two bracket characters the markers are made of, and any other one.
Chars == {"[", "]", "w"}
CharTexts == SeqsUpTo(Chars, MaxChars)

\* "[[[" and "]]]", character by character.
LChars == <<"[", "[", "[">>
RChars == <<"]", "]", "]">>

\* str.replace(old, ""): the occurrences of old found from left to right,
\* none overlapping another, are removed in one pass.
RECURSIVE str_replace(_, _)
str_replace(s, old) ==
    IF Len(s) < Len(old) THEN s
    ELSE IF SubSeq(s, 1, Len(old)) = old
         THEN str_replace(SubSeq(s, Len(old) + 1, Len(s)), old)
         ELSE <<s[1]>> \o str_replace(Tail(s), old)

\* .replace("[[[", "").replace("]]]", ""), character by character.
\* StripMarkers above is the same on texts whose brackets are all markers.
StripMarkerChars(s) == str_replace(str_replace(s, LChars), RChars)

\* "[[[" in s or "]]]" in s
HasMarkerChars(s) ==
    \E i \in 1..(Len(s) - 2) : SubSeq(s, i, i + 2) \in {LChars, RChars}

\* Mutant: < for <= in the first test.
InBudgetStrict(text, token_quantities) ==
    NumTokens(text) < token_quantities.target_summary_size

\* Mutant: the first test lets one token too many through.
InBudgetOffByOne(text, token_quantities) ==
    NumTokens(text) <= token_quantities.target_summary_size + 1

\* Branch 1 of summarize: the text is already short enough.
InBudget(text, token_quantities) ==
    NumTokens(text) <= token_quantities.target_summary_size

\* Mutant: < for <= in the second test.
FitsOneCallStrict(text, token_quantities) ==
    NumTokens(text) < token_quantities.summary_input_size

\* Branch 2 of summarize: the text fits one call.
FitsOneCall(text, token_quantities) ==
    NumTokens(text) <= token_quantities.summary_input_size

\* Mutant: > for >= in the test of the attempts.
AttemptsExhaustedLate(n) == n > MAX_ATTEMPTS

\* if tries >= MAX_ATTEMPTS
AttemptsExhausted(n) == n >= MAX_ATTEMPTS

\* except (openai.APIConnectionError, openai.APIError, openai.RateLimitError)
CaughtClasses == {"APIConnectionError", "APIError", "RateLimitError"}

\* What the provider call may raise: an exception of a caught class, with
\* should_retry true or false (the three caught classes take the same
\* path, one stands for them), and any other exception.
Errors ==
    [class : {"APIError"}, should_retry : BOOLEAN]
        \cup {[class |-> "Other", should_retry |-> TRUE]}

\* Mutant: a bare except, every exception is caught.
IsCaughtAny(exc) == TRUE

IsCaught(exc) == exc.class \in CaughtClasses

\* Mutant: should_retry is not looked at.
NoRetryIgnored(exc) == FALSE

\* if hasattr(e, "should_retry") and not e.should_retry
NoRetry(exc) == ~exc.should_retry

\* One second, in the unit of time: the step 2^-FloatBits of the random
\* generator.
OneSecond == 2 ^ FloatBits

\* random.random(): m * 2^-FloatBits for 0 <= m < 2^FloatBits; the
\* smallest, the middle and the largest m stand for them.
RandomDraws == {0, 2 ^ (FloatBits - 1), 2 ^ FloatBits - 1}

\* The distance between two neighbouring floats around x >= 1 second, for
\* a significand of FloatBits bits.
Ulp(x) ==
    IF x < 2 * OneSecond THEN 2
    ELSE IF x < 4 * OneSecond THEN 4
    ELSE 8

\* The float nearest to x, the one with the even significand on a tie.
RoundToEven(x) ==
    LET u == Ulp(x)
        q == x \div u
        r == x % u
    IN  IF 2 * r < u THEN q * u
        ELSE IF 2 * r > u THEN (q + 1) * u
        ELSE IF q % 2 = 0 THEN q * u
        ELSE (q + 1) * u

\* random.random() * 4.0 + 1.0 for the draw m: the product is exact, the
\* sum is rounded.
BaseWait(m) == RoundToEven(4 * m + OneSecond)

BaseWaits == {BaseWait(m) : m \in RandomDraws}

\* Mutant: the wait is scaled by the number of tries once only.
SleepLengthLinear(base, n) == base * n

\* time.sleep(random_wait * tries), random_wait already scaled by tries;
\* both products are exact for the 1 or 2 tries a sleep can follow.
SleepLength(base, n) == (base * n) * n

(* ------------------------------- state -------------------------------- *)

VARIABLES
    cache,          \* cache.json: call signature -> returned text
    stack,          \* the call stack of memoized invocations, innermost last
    actual_tokens,  \* the global usage counter
    pc,             \* where the module-level script stands
    book,           \* the text the script summarizes
    sizes,          \* the target sizes the script loops over
    ctx,            \* the model_context_size the script passes
    n,              \* the loop's position in sizes
    summaries,      \* the script's summaries, in insertion order
    final,          \* what synthesize_summaries returned to the script
    okCalls,        \* history: per call signature, the completions received
    returned,       \* history: what each top-level summarize call returned
    err             \* history: the exception that ended the run

vars == <<cache, stack, actual_tokens, pc, book, sizes, ctx, n, summaries,
          final, okCalls, returned, err>>

scriptVars == <<pc, n, summaries, final, returned>>
inputs == <<book, sizes, ctx>>

NoExc == [class |-> "none", should_retry |-> TRUE]
NoParams == [target_summary_size |-> 0, summary_input_size |-> 0]
NoText == <<>>

\* Mutant: summarize has lost its decorator.
MemoizedSynthOnly == {"synthesize_summaries"}

\* The functions decorated with @memoize_to_file(cache_file="cache.json").
Memoized == {"summarize", "synthesize_summaries"}

\* The cache key of a call: the function and the repr of its arguments
\* (division_point and model_name never vary and are left out).
CacheKey(f) == [fn |-> f.fn, text |-> f.text, params |-> f.params]

\* The wrapper's lookup: the call's signature has an entry.
CacheHit(f) == f.fn \in Memoized /\ CacheKey(f) \in DOMAIN cache

\* Mutant: the write keeps only the entry it adds.
CacheStoreOnlyNew(f, v) ==
    IF f.fn \in Memoized
    THEN [k \in {CacheKey(f)} |-> v]
    ELSE cache

\* The wrapper's write, after the wrapped function returned v.
CacheStore(f, v) ==
    IF f.fn \in Memoized
    THEN [k \in DOMAIN cache \cup {CacheKey(f)} |->
            IF k = CacheKey(f) THEN v ELSE cache[k]]
    ELSE cache

\* The locals of gpt_summarize before its loop: tries, the exception e
\* being handled, the last sleep's length, and (history) the sleeps made.
NoGpt == [tries |-> 0, exc |-> NoExc, random_wait |-> 0, slept |-> 0]

\* A call of summarize(text, token_quantities, ...) about to run its wrapper.
SummarizeFrame(text, token_quantities) ==
    [fn |-> "summarize", text |-> text, params |-> token_quantities,
     pc |-> "call", segs |-> <<>>, i |-> 0, sums |-> <<>>, val |-> NoText,
     gpt |-> NoGpt]

\* repr(summaries): the list's items, each closed by an item separator.
RECURSIVE ListRepr(_)
ListRepr(ss) ==
    IF ss = <<>> THEN <<>> ELSE ss[1] \o <<",">> \o ListRepr(Tail(ss))

\* A call of synthesize_summaries(summaries, "gpt-4").
SynthFrame(ss) ==
    [fn |-> "synthesize_summaries", text |-> ListRepr(ss), params |-> NoParams,
     pc |-> "call", segs |-> <<>>, i |-> 0, sums |-> ss, val |-> NoText,
     gpt |-> NoGpt]

Top == stack[Len(stack)]
Callers == SubSeq(stack, 1, Len(stack) - 1)
SetTop(f) == [stack EXCEPT ![Len(stack)] = f]

\* summaries[target_summary_size] = v: a new key is added after the others,
\* a key that is already there keeps its place and gets the new value.
StoreSummary(v) ==
    LET seen == {i \in 1..(n - 1) : sizes[i] = sizes[n]}
    IN  IF seen = {} THEN Append(summaries, v)
        ELSE LET first == CHOOSE i \in seen : \A j \in seen : i <= j
                 place == Cardinality({sizes[i] : i \in 1..first})
             IN  [summaries EXCEPT ![place] = v]

\* The value v comes back to the caller of the innermost invocation: the
\* list comprehension of branch 3 collects it, the tail call of branch 3
\* returns it, the script stores it (markers stripped) or prints it.
Deliver(v) ==
    IF Len(stack) > 1
    THEN LET c == stack[Len(stack) - 1]
             c2 == IF c.pc = "segs"
                   THEN [c EXCEPT !.sums = Append(@, v), !.i = @ + 1]
                   ELSE [c EXCEPT !.pc = "ret", !.val = v]
         IN  /\ stack' = [Callers EXCEPT ![Len(stack) - 1] = c2]
             /\ UNCHANGED scriptVars
    ELSE /\ stack' = <<>>
         /\ IF Top.fn = "summarize"
            THEN /\ summaries' = StoreSummary(StripMarkers(v))
                 /\ returned' = Append(returned, v)
                 /\ n' = n + 1
                 /\ pc' = "loop"
                 /\ UNCHANGED final
            ELSE /\ final' = v
                 /\ pc' = "done"
                 /\ UNCHANGED <<summaries, returned, n>>

\* Mutant: the caller catches the exception of a nested invocation and
\* goes on with an empty summary in its place.
PropagateToCaller(e, attempts) ==
    IF Len(stack) > 1
    THEN /\ Deliver(NoText)
         /\ UNCHANGED <<cache, err>>
    ELSE /\ stack' = <<>>
         /\ pc' = "aborted"
         /\ err' = [exc |-> e, tries |-> attempts, slept |-> Top.gpt.slept,
                    keys |-> {CacheKey(stack[j]) : j \in 1..Len(stack)}]
         /\ UNCHANGED <<cache, n, summaries, final, returned>>

\* An exception leaves the innermost invocation: nothing catches it, so it
\* unwinds every frame and ends the script.
Propagate(e, attempts) ==
    /\ stack' = <<>>
    /\ pc' = "aborted"
    /\ err' = [exc |-> e, tries |-> attempts, slept |-> Top.gpt.slept,
               keys |-> {CacheKey(stack[j]) : j \in 1..Len(stack)}]
    /\ UNCHANGED <<cache, n, summaries, final, returned>>

\* One more completion received for the innermost invocation's signature.
Received ==
    LET k == CacheKey(Top)
    IN  [x \in DOMAIN okCalls \cup {k} |->
            IF x = k
            THEN (IF k \in DOMAIN okCalls THEN okCalls[k] ELSE 0) + 1
            ELSE okCalls[x]]

(* ----------------------- the memoizing wrapper ------------------------ *)

\* The wrapper finds the call's signature in the cache: the stored text is
\* returned and the wrapped function is not entered.
MemoHit ==
    /\ stack # <<>>
    /\ Top.pc = "call"
    /\ CacheHit(Top)
    /\ Deliver(cache[CacheKey(Top)])
    /\ UNCHANGED <<cache, actual_tokens, inputs, okCalls, err>>

\* No entry: the wrapped function runs.
MemoMiss ==
    /\ stack # <<>>
    /\ Top.pc = "call"
    /\ ~CacheHit(Top)
    /\ stack' = SetTop([Top EXCEPT !.pc = "body"])
    /\ UNCHANGED <<cache, actual_tokens, inputs, scriptVars, okCalls, err>>

\* The wrapped function returned: the wrapper stores the value under the
\* call's signature and hands it to the caller.
Return ==
    /\ stack # <<>>
    /\ Top.pc = "ret"
    /\ cache' = CacheStore(Top, Top.val)
    /\ Deliver(Top.val)
    /\ UNCHANGED <<actual_tokens, inputs, okCalls, err>>

(* ----------------------------- summarize ------------------------------ *)

\* Branch 1: the text is already short enough, return it.
PassThrough ==
    /\ stack # <<>>
    /\ Top.fn = "summarize" /\ Top.pc = "body"
    /\ InBudget(Top.text, Top.params)
    /\ stack' = SetTop([Top EXCEPT !.pc = "ret", !.val = Top.text])
    /\ UNCHANGED <<cache, actual_tokens, inputs, scriptVars, okCalls, err>>

\* Branch 2: gpt_summarize(text, target_summary_size) is entered.
EnterGpt ==
    /\ stack # <<>>
    /\ Top.fn = "summarize" /\ Top.pc = "body"
    /\ ~InBudget(Top.text, Top.params)
    /\ FitsOneCall(Top.text, Top.params)
    /\ stack' = SetTop([Top EXCEPT !.pc = "gpt", !.gpt = NoGpt])
    /\ UNCHANGED <<cache, actual_tokens, inputs, scriptVars, okCalls, err>>

\* Branch 3: the text is split into sections. A budget that is not
\* positive admits no section at all: the splitter cannot return.
Split ==
    /\ stack # <<>>
    /\ Top.fn = "summarize" /\ Top.pc = "body"
    /\ ~InBudget(Top.text, Top.params)
    /\ ~FitsOneCall(Top.text, Top.params)
    /\ Len(stack) <= MaxDepth
    /\ UNCHANGED <<actual_tokens, inputs, okCalls>>
    /\ IF Top.params.summary_input_size > 0
       THEN /\ stack' = SetTop([Top EXCEPT
                    !.pc = "segs",
                    !.segs = split_text_into_sections(
                                Top.text, Top.params.summary_input_size),
                    !.i = 1])
            /\ UNCHANGED <<cache, scriptVars, err>>
       ELSE Propagate([class |-> "SplitError", should_retry |-> TRUE], 0)

\* The list comprehension calls summarize on the next section.
SegCall ==
    /\ stack # <<>>
    /\ Top.pc = "segs"
    /\ Top.i <= Len(Top.segs)
    /\ stack' = Append(stack, SummarizeFrame(Top.segs[Top.i], Top.params))
    /\ UNCHANGED <<cache, actual_tokens, inputs, scriptVars, okCalls, err>>

\* Every section is summarized: summarize is called on the joined text.
JoinCall ==
    /\ stack # <<>>
    /\ Top.pc = "segs"
    /\ Top.i > Len(Top.segs)
    /\ stack' = Append(SetTop([Top EXCEPT !.pc = "joined"]),
                       SummarizeFrame(JoinSummaries(Top.sums), Top.params))
    /\ UNCHANGED <<cache, actual_tokens, inputs, scriptVars, okCalls, err>>

(* --------------------------- gpt_summarize ---------------------------- *)

\* An attempt succeeds: the usage is added and the wrapped completion is
\* returned to summarize, which returns it.
GptOk ==
    /\ stack # <<>>
    /\ Top.pc = "gpt"
    /\ \E completion \in Completions :
        /\ stack' = SetTop([Top EXCEPT !.pc = "ret",
                                       !.val = GptResult(completion),
                                       !.gpt.tries = @ + 1])
        /\ actual_tokens' = actual_tokens
              + Usage(Top.text, Top.params.target_summary_size, completion)
    /\ okCalls' = Received
    /\ UNCHANGED <<cache, inputs, scriptVars, err>>

\* An attempt raises. An exception of no caught class leaves at once; a
\* caught one is re-raised after MAX_ATTEMPTS tries or when it says not to
\* retry, and is slept on otherwise.
GptFail ==
    /\ stack # <<>>
    /\ Top.pc = "gpt"
    /\ UNCHANGED <<actual_tokens, inputs, okCalls>>
    /\ \E e \in Errors, base \in BaseWaits :
        LET t == Top.gpt.tries + 1
        IN  IF ~IsCaught(e) \/ AttemptsExhausted(t) \/ NoRetry(e)
            THEN Propagate(e, t)
            ELSE /\ stack' = SetTop([Top EXCEPT
                        !.gpt = [tries |-> t, exc |-> e,
                                 random_wait |-> SleepLength(base, t),
                                 slept |-> @.slept + 1]])
                 /\ UNCHANGED <<cache, scriptVars, err>>

(* ------------------------ synthesize_summaries ------------------------ *)

\* The tokens of the synthesis prompt around the summaries.
SynthTemplateSize == 2

\* num_tokens_from_messages(messages): the template, and per summary its
\* "Summary i: " label, its text and the blank line after it.
RECURSIVE SummariesJoinedTokens(_)
SummariesJoinedTokens(ss) ==
    IF ss = <<>> THEN 0
    ELSE 1 + NumTokens(ss[1]) + 1 + SummariesJoinedTokens(Tail(ss))

\* Mutant: the summaries are left out of the count.
SynthPromptTokensTemplateOnly(ss) == SynthTemplateSize

SynthPromptTokens(ss) == SynthTemplateSize + SummariesJoinedTokens(ss)

\* The prompt is built and its size asserted.
SynthBody ==
    /\ stack # <<>>
    /\ Top.fn = "synthesize_summaries" /\ Top.pc = "body"
    /\ UNCHANGED <<actual_tokens, inputs, okCalls>>
    /\ IF SynthPromptTokens(Top.sums) <= SynthPromptLimit
       THEN /\ stack' = SetTop([Top EXCEPT !.pc = "request"])
            /\ UNCHANGED <<cache, scriptVars, err>>
       ELSE Propagate([class |-> "AssertionError", should_retry |-> TRUE], 0)

\* The one request succeeds: the completion is returned as it is.
SynthOk ==
    /\ stack # <<>>
    /\ Top.pc = "request"
    /\ \E completion \in Completions :
        stack' = SetTop([Top EXCEPT !.pc = "ret", !.val = completion])
    /\ okCalls' = Received
    /\ UNCHANGED <<cache, actual_tokens, inputs, scriptVars, err>>

\* Mutant: the request is sent again after a caught error, as in
\* gpt_summarize.
SynthFailRetried ==
    /\ stack # <<>>
    /\ Top.pc = "request"
    /\ UNCHANGED <<actual_tokens, inputs, okCalls>>
    /\ \E e \in Errors :
        LET t == Top.gpt.tries + 1
        IN  IF ~IsCaught(e) \/ AttemptsExhausted(t) \/ NoRetry(e)
            THEN Propagate(e, t)
            ELSE /\ stack' = SetTop([Top EXCEPT !.gpt.tries = t])
                 /\ UNCHANGED <<cache, scriptVars, err>>

\* The one request raises: nothing catches it.
SynthFail ==
    /\ stack # <<>>
    /\ Top.pc = "request"
    /\ UNCHANGED <<actual_tokens, inputs, okCalls>>
    /\ \E e \in Errors : Propagate(e, 1)

(* ----------------------------- the script ----------------------------- *)

\* for target_summary_size in target_summary_sizes: the counter is reset,
\* the parameters are computed and summarize(book, ...) is called.
ScriptLoop ==
    /\ pc = "loop"
    /\ n <= Len(sizes)
    /\ actual_tokens' = 0
    /\ stack' = <<SummarizeFrame(book,
                     summarization_token_parameters(sizes[n], ctx))>>
    /\ pc' = "summarizing"
    /\ UNCHANGED <<cache, inputs, n, summaries, final, okCalls,
                   returned, err>>

\* Mutant: synthesize_summaries is called as soon as one summary is there.
ScriptSynthEarly ==
    /\ pc = "loop"
    /\ n > 1
    /\ stack' = <<SynthFrame(summaries)>>
    /\ pc' = "synthesizing"
    /\ UNCHANGED <<cache, actual_tokens, inputs, n, summaries, final,
                   okCalls, returned, err>>

\* After the loop: synthesize_summaries(list(summaries.values()), "gpt-4").
ScriptSynth ==
    /\ pc = "loop"
    /\ n > Len(sizes)
    /\ stack' = <<SynthFrame(summaries)>>
    /\ pc' = "synthesizing"
    /\ UNCHANGED <<cache, actual_tokens, inputs, n, summaries, final,
                   okCalls, returned, err>>

\* The call harness ends after its calls.
HarnessEnd ==
    /\ pc = "loop"
    /\ n > Len(sizes)
    /\ pc' = "done"
    /\ UNCHANGED <<cache, stack, actual_tokens, inputs, n, summaries,
                   final, okCalls, returned, err>>

\* One pass of the script's loop seen character by character: summarize
\* hands back the text itself (branch 1) or a completion between the
\* markers (branch 2), and the script stores it with the markers replaced.
StripStore ==
    /\ pc = "loop"
    /\ n <= Len(sizes)
    /\ \E v \in {book, LChars \o book \o RChars} :
          /\ returned' = Append(returned, v)
          /\ summaries' = Append(summaries, StripMarkerChars(v))
    /\ n' = n + 1
    /\ UNCHANGED <<cache, stack, actual_tokens, pc, inputs, final,
                   okCalls, err>>

(* -------------------------- specifications ---------------------------- *)

EmptyCache == [k \in {} |-> NoText]

InitCommon ==
    /\ cache = EmptyCache
    /\ stack = <<>>
    /\ actual_tokens = 0
    /\ pc = "loop"
    /\ n = 1
    /\ summaries = <<>>
    /\ final = NoText
    /\ okCalls = [k \in {} |-> 0]
    /\ returned = <<>>
    /\ err = [exc |-> NoExc, tries |-> 0, slept |-> 0, keys |-> {}]

\* The script as written: the three target sizes, one context size.
Init ==
    /\ InitCommon
    /\ book \in Books
    /\ sizes = target_summary_sizes
    /\ ctx = ModelContextSize

\* The call harness: summarize is called twice with the same arguments,
\* for every text, target size and context size within the bounds, and
\* for the script's books under the script's context size.
InitCall ==
    /\ InitCommon
    /\ \E t \in 1..MaxTarget : sizes = <<t, t>>
    /\ \/ book \in Texts /\ ctx \in 0..MaxCtx
       \/ book \in Books /\ ctx = ModelContextSize

Engine ==
    \/ MemoHit
    \/ MemoMiss
    \/ Return
    \/ PassThrough
    \/ EnterGpt
    \/ Split
    \/ SegCall
    \/ JoinCall
    \/ GptOk
    \/ GptFail

Next ==
    \/ Engine
    \/ ScriptLoop
    \/ ScriptSynth
    \/ SynthBody
    \/ SynthOk
    \/ SynthFail

NextCall ==
    \/ Engine
    \/ ScriptLoop
    \/ HarnessEnd

Spec == Init /\ [][Next]_vars

SpecCall == InitCall /\ [][NextCall]_vars

\* The marker removal on every text of brackets and other characters
\* within the bound: book is the text or the completion that comes back.
InitStrip ==
    /\ InitCommon
    /\ book \in CharTexts
    /\ sizes = <<MaxChars>>
    /\ ctx = 0

NextStrip == StripStore

SpecStrip == InitStrip /\ [][NextStrip]_vars

(* ------------------------------ claims -------------------------------- *)

\* The summarize invocations on the stack, each with its position.
SummarizeAt(j) == stack[j].fn = "summarize"

\* The parameters of the i-th top-level summarize call.
ParamsOfCall(i) == summarization_token_parameters(sizes[i], ctx)

\* The cache key of the i-th top-level summarize call.
KeyOfCall(i) == [fn |-> "summarize", text |-> book, params |-> ParamsOfCall(i)]

\* Text t falls in branch 1, 2 or 3 under parameters p.
Branch1(t, p) == Len(t) <= p.target_summary_size
Branch2(t, p) ==
    p.target_summary_size < Len(t) /\ Len(t) <= p.summary_input_size
Branch3(t, p) ==
    p.target_summary_size < Len(t) /\ p.summary_input_size < Len(t)

\* v is one completion between the two markers.
IsWrappedCompletion(v) ==
    /\ Len(v) >= 2
    /\ v[1] = L
    /\ v[Len(v)] = R
    /\ \A j \in 2..(Len(v) - 1) : v[j] \notin {L, R, NN}

\* C1: a text within target_summary_size is returned unchanged with no
\* external call: its invocation never enters gpt_summarize, never splits,
\* never calls summarize again, whatever summary_input_size is; no
\* completion is ever received for its signature, and the value cached
\* and returned for it is the text itself.
C1_PassThroughUnchanged ==
    /\ \A j \in 1..Len(stack) :
          (SummarizeAt(j) /\ Branch1(stack[j].text, stack[j].params)) =>
              /\ stack[j].pc \in {"call", "body", "ret"}
              /\ j = Len(stack)
              /\ stack[j].gpt = NoGpt
              /\ stack[j].segs = <<>>
              /\ (stack[j].pc = "ret" => stack[j].val = stack[j].text)
    /\ \A k \in DOMAIN cache :
          (k.fn = "summarize" /\ Branch1(k.text, k.params)) =>
              cache[k] = k.text /\ k \notin DOMAIN okCalls
    /\ \A i \in 1..Len(returned) :
          Branch1(book, ParamsOfCall(i)) => returned[i] = book

\* C1's case: a text within the target came back, under a
\* summary_input_size that is not even positive.
C1_Witness ==
    /\ Len(returned) >= 1
    /\ Branch1(book, ParamsOfCall(1))
    /\ ParamsOfCall(1).summary_input_size <= 0
    /\ returned[1] = book

\* C2 as stated: the first, uncached invocation on a text that fits one
\* call returns after exactly one request to the provider, failed attempts
\* counted.
C2_ExactlyOneAttempt ==
    (/\ Len(stack) = 1
     /\ n = 1
     /\ SummarizeAt(1)
     /\ Branch2(stack[1].text, stack[1].params)
     /\ stack[1].pc = "ret")
        => stack[1].gpt.tries = 1

\* C2, amended: an uncached invocation on a text that fits one call sends
\* between 1 and MAX_ATTEMPTS requests, one more than it slept, receives
\* exactly one completion, and neither splits nor calls summarize again.
C2_OneCompletionAtMostThreeAttempts ==
    /\ \A j \in 1..Len(stack) :
          (SummarizeAt(j) /\ Branch2(stack[j].text, stack[j].params)) =>
              /\ stack[j].pc \in {"call", "body", "gpt", "ret"}
              /\ j = Len(stack)
              /\ stack[j].segs = <<>> /\ stack[j].sums = <<>>
              /\ stack[j].gpt.tries <= MAX_ATTEMPTS
              /\ stack[j].gpt.slept <= MAX_ATTEMPTS - 1
              /\ (stack[j].pc = "ret" =>
                    /\ stack[j].gpt.tries \in 1..MAX_ATTEMPTS
                    /\ stack[j].gpt.slept = stack[j].gpt.tries - 1
                    /\ CacheKey(stack[j]) \in DOMAIN okCalls
                    /\ okCalls[CacheKey(stack[j])] = 1)
    /\ (pc = "aborted" /\ err.exc.class \in {"APIError", "Other"}) =>
          err.tries \in 1..MAX_ATTEMPTS

\* C2's case: the first invocation returns after two failed attempts and a
\* third, successful one.
C2_Witness ==
    /\ Len(stack) = 1
    /\ n = 1
    /\ Branch2(stack[1].text, stack[1].params)
    /\ stack[1].pc = "ret"
    /\ stack[1].gpt.tries = MAX_ATTEMPTS

\* C3 as stated: what summarize returns for a text that fits one call
\* holds no delimiter marker.
C3_ReturnedWithoutMarkers ==
    \A i \in 1..Len(returned) :
        Branch2(book, ParamsOfCall(i)) => ~HasMarkers(returned[i])

\* C3, amended: what summarize returns for a text that fits one call is
\* the completion between the two markers, and that same marked value is
\* what the cache holds for the call.
C3_ReturnedWrapped ==
    /\ \A i \in 1..Len(returned) :
          Branch2(book, ParamsOfCall(i)) =>
              /\ IsWrappedCompletion(returned[i])
              /\ KeyOfCall(i) \in DOMAIN cache
              /\ cache[KeyOfCall(i)] = returned[i]
    /\ \A j \in 1..Len(stack) :
          (/\ SummarizeAt(j)
           /\ Branch2(stack[j].text, stack[j].params)
           /\ stack[j].pc = "ret") => IsWrappedCompletion(stack[j].val)

\* C3's case: a text that fits one call was summarized and came back.
C3_Witness ==
    /\ Len(returned) >= 1
    /\ Branch2(book, ParamsOfCall(1))
    /\ HasMarkers(returned[1])
    /\ cache[KeyOfCall(1)] = returned[1]

\* The run was ended by an exception that left a summarize invocation.
AbortedInSummarize ==
    pc = "aborted" /\ \E k \in err.keys : k.fn = "summarize"

\* C4: when every attempt fails with a retryable error of a caught class,
\* gpt_summarize raises after exactly MAX_ATTEMPTS = 3 attempts and 2
\* sleeps; no 4th attempt is made and the call returns no value.
C4_ThreeAttemptsThenRaise ==
    /\ \A j \in 1..Len(stack) :
          /\ stack[j].gpt.tries <= MAX_ATTEMPTS
          /\ stack[j].pc = "gpt" => stack[j].gpt.tries < MAX_ATTEMPTS
    /\ (/\ AbortedInSummarize
        /\ err.exc.class \in CaughtClasses
        /\ err.exc.should_retry) =>
            /\ err.tries = MAX_ATTEMPTS
            /\ err.slept = MAX_ATTEMPTS - 1
            /\ stack = <<>>
            /\ Len(returned) = n - 1
            /\ \A k \in err.keys : k \notin DOMAIN cache

\* C4's case: the third retryable failure in a row ended the run.
C4_Witness ==
    /\ AbortedInSummarize
    /\ err.exc.class \in CaughtClasses
    /\ err.exc.should_retry
    /\ err.tries = MAX_ATTEMPTS

\* C5: an error flagged should_retry = false on attempt k is raised at
\* once: gpt_summarize never stands before a further attempt with such an
\* error in hand, and when it ended the run, k attempts and only the k - 1
\* sleeps of the earlier failures were made.
C5_NoRetryRaisedAtOnce ==
    /\ \A j \in 1..Len(stack) :
          (stack[j].pc = "gpt" /\ stack[j].gpt.tries >= 1) =>
              /\ stack[j].gpt.exc.class \in CaughtClasses
              /\ stack[j].gpt.exc.should_retry
              /\ stack[j].gpt.slept = stack[j].gpt.tries
    /\ (/\ AbortedInSummarize
        /\ err.exc.class \in CaughtClasses
        /\ ~err.exc.should_retry) =>
            /\ err.tries \in 1..MAX_ATTEMPTS
            /\ err.slept = err.tries - 1
            /\ stack = <<>>

\* C5's case: the second attempt failed with should_retry = false, with
\* one attempt still left, and ended the run.
C5_Witness ==
    /\ AbortedInSummarize
    /\ err.exc.class \in CaughtClasses
    /\ ~err.exc.should_retry
    /\ err.tries = 2
    /\ err.slept = 1

\* C6 as stated: no parameters with a summary_input_size that is not
\* positive are ever passed to summarize.
C6_InputBudgetPositive ==
    \A j \in 1..Len(stack) :
        SummarizeAt(j) => stack[j].params.summary_input_size > 0

C8_JoinedTextShorter ==
    \A j \in 2..Len(stack) :
        (/\ stack[j - 1].pc = "joined"
         /\ stack[j].pc \in {"body", "segs", "joined"}
         /\ stack[j].params.target_summary_size > 0
         /\ stack[j].params.summary_input_size > 0
         /\ Branch3(stack[j].text, stack[j].params)) =>
            Len(stack[j].text) < Len(stack[j - 1].text)

\* C9 as stated: every value a top-level summarize call returns is within
\* target_summary_size.
C9_ReturnedInBudget ==
    \A i \in 1..Len(returned) : Len(returned[i]) <= sizes[i]

\* C9, amended: every value a summarize call returns is within
\* target_summary_size or is one completion between the markers, as long
\* as the provider made it.
C9_InBudgetOrWrapped ==
    /\ \A i \in 1..Len(returned) :
          \/ Len(returned[i]) <= sizes[i]
          \/ IsWrappedCompletion(returned[i])
    /\ \A j \in 1..Len(stack) :
          (SummarizeAt(j) /\ stack[j].pc = "ret") =>
              \/ Len(stack[j].val) <= stack[j].params.target_summary_size
              \/ IsWrappedCompletion(stack[j].val)

\* C9's case: a text was split, its sections summarized and joined, and
\* the value that came back is over the target size.
C9_Witness ==
    /\ Len(returned) >= 1
    /\ Branch3(book, ParamsOfCall(1))
    /\ Len(returned[1]) > sizes[1]

\* C10: the cache changes only when a memoized invocation returns, by the
\* one entry of that invocation; no entry is ever removed or changed; and
\* when an exception ends the run, the cache is left as it was, with no
\* entry for the failing invocation or any invocation enclosing it.
C10_CacheWrittenOnReturnOnly ==
    [][/\ \A k \in DOMAIN cache : k \in DOMAIN cache' /\ cache'[k] = cache[k]
       /\ cache' # cache =>
            /\ stack # <<>>
            /\ Top.pc = "ret"
            /\ DOMAIN cache' = DOMAIN cache \cup {CacheKey(Top)}
            /\ cache'[CacheKey(Top)] = Top.val
       /\ (pc' = "aborted" /\ pc # "aborted") =>
            /\ cache' = cache
            /\ \A j \in 1..Len(stack) : CacheKey(stack[j]) \notin DOMAIN cache'
      ]_vars

\* C10's case: an exception ended the run inside a section of a split
\* text, after an earlier section's summary had been cached.
C10_Witness ==
    /\ pc = "aborted"
    /\ Cardinality(err.keys) >= 2
    /\ \E k \in DOMAIN cache, e \in err.keys :
          k.fn = "summarize" /\ k.params = e.params /\ k \notin err.keys

\* A key of synthesize_summaries.
IsSynthKey(k) == k.fn = "synthesize_summaries"

\* C11: when the external call of a nested invocation (a section's, or the
\* joined text's) of a branch-3 summarize fails fatally, the whole run ends
\* in that step: every frame is gone, nothing more is returned, stored,
\* cached or received, the loop stands at the target size that failed, and
\* synthesize_summaries was not and will not be called, since a run that
\* ended takes no further step.
C11_FatalFailureAbortsRun ==
    [][/\ pc # "aborted"
       /\ (/\ Len(stack) >= 2
           /\ Top.pc = "gpt"
           /\ ~(/\ Len(stack') = Len(stack)
                /\ SubSeq(stack', 1, Len(stack) - 1) = Callers
                /\ stack'[Len(stack)].pc \in {"gpt", "ret"})) =>
            /\ pc' = "aborted"
            /\ stack' = <<>>
            /\ UNCHANGED <<cache, okCalls, actual_tokens, n, summaries,
                           final, returned>>
            /\ n' <= Len(sizes)
            /\ Len(returned') = n' - 1
            /\ Len(summaries') = n' - 1
            /\ final' = NoText
            /\ \A k \in DOMAIN cache' \cup DOMAIN okCalls' : ~IsSynthKey(k)
      ]_vars

\* C11's case: the first target size was summarized; under the second the
\* book was split and the external call for its first section failed with
\* a caught error, before any section's summary was cached.
C11_Witness ==
    /\ pc = "aborted"
    /\ Len(returned) = 1
    /\ err.exc.class \in CaughtClasses
    /\ Cardinality(err.keys) = 2
    /\ \E k \in err.keys :
          /\ k.text # book
          /\ k.text = SubSeq(book, 1, Len(k.text))
          /\ \A c \in DOMAIN cache : c.params # k.params

\* C12: when the synthesis prompt with all the summaries in it is over the
\* limit, synthesize_summaries fails on its assertion before any request:
\* the invocation never stands at the request, no completion is received
\* for it, nothing is retried or slept on, nothing is returned to the
\* script and no cache entry is written for it.
C12_OverLimitFailsBeforeRequest ==
    /\ \A j \in 1..Len(stack) :
          (/\ IsSynthKey(CacheKey(stack[j]))
           /\ SynthTemplateSize + SummariesJoinedTokens(stack[j].sums)
                > SynthPromptLimit) =>
              /\ stack[j].pc \in {"call", "body"}
              /\ stack[j].gpt = NoGpt
              /\ CacheKey(stack[j]) \notin DOMAIN okCalls
              /\ CacheKey(stack[j]) \notin DOMAIN cache
    /\ (pc = "aborted" /\ err.exc.class = "AssertionError") =>
          /\ SynthTemplateSize + SummariesJoinedTokens(summaries)
                > SynthPromptLimit
          /\ err.tries = 0
          /\ err.slept = 0
          /\ stack = <<>>
          /\ final = NoText
          /\ \A k \in err.keys :
                /\ IsSynthKey(k)
                /\ k \notin DOMAIN okCalls
                /\ k \notin DOMAIN cache

\* C12's case: the three summaries were made, their prompt was over the
\* limit and the assertion ended the run.
C12_Witness ==
    /\ pc = "aborted"
    /\ err.exc.class = "AssertionError"
    /\ Len(summaries) = 3
    /\ SynthTemplateSize + SummariesJoinedTokens(summaries) > SynthPromptLimit

\* C13 as stated: no summary the script stores holds "[[[" or "]]]".
C13_StoredWithoutMarkerChars ==
    \A i \in 1..Len(summaries) : ~HasMarkerChars(summaries[i])

\* An invocation of synthesize_summaries is on the stack.
SynthOnStack(st) ==
    \E j \in 1..Len(st) : st[j].fn = "synthesize_summaries"

\* C14 as stated: synthesize_summaries receives the three values that the
\* top-level summarize invocations returned.
C14_SynthReceivesReturned ==
    \A j \in 1..Len(stack) :
        stack[j].fn = "synthesize_summaries" => stack[j].sums = returned

\* C14, amended: synthesize_summaries is invoked only by the script, only
\* once the top-level summarize invocations for the three target sizes
\* have returned one after the other in the order of the sizes, and never
\* a second time; it receives those three results in that order, each
\* with the delimiter markers removed; and a run that ends well received
\* exactly one completion for it.
C14_SynthOnceAfterAllThree ==
    [][/\ Len(returned') # Len(returned) =>
            /\ returned' = Append(returned, cache'[KeyOfCall(n)])
            /\ Len(returned) = n - 1
            /\ n' = n + 1
            /\ ~SynthOnStack(stack)
            /\ pc = "summarizing"
       /\ SynthOnStack(stack') =>
            /\ pc' = "synthesizing"
            /\ Len(stack') = 1
            /\ Len(returned') = Len(sizes)
            /\ \A i \in 1..Len(sizes) :
                  /\ sizes[i] = target_summary_sizes[i]
                  /\ cache'[KeyOfCall(i)] = returned'[i]
            /\ stack'[1].sums =
                  [i \in 1..Len(sizes) |-> StripMarkers(returned'[i])]
       /\ (SynthOnStack(stack') /\ ~SynthOnStack(stack)) =>
            /\ pc = "loop"
            /\ n > Len(sizes)
            /\ \A k \in DOMAIN cache \cup DOMAIN okCalls : ~IsSynthKey(k)
       /\ pc \in {"synthesizing", "done", "aborted"} =>
            /\ pc' \in {"synthesizing", "done", "aborted"}
            /\ pc # "synthesizing" => pc' = pc
       /\ pc' = "done" =>
            /\ \A k \in DOMAIN okCalls' : IsSynthKey(k) => okCalls'[k] = 1
            /\ Cardinality({k \in DOMAIN okCalls' : IsSynthKey(k)}) = 1
            /\ Cardinality({k \in DOMAIN cache' : IsSynthKey(k)}) = 1
      ]_vars

\* C14's case: every call succeeded and the run ended with the synthesis
\* of three summaries, one at least made by the provider.
C14_Witness ==
    /\ pc = "done"
    /\ final # NoText
    /\ Len(returned) = 3
    /\ \E i \in 1..3 : HasMarkers(returned[i])

\* The invocations that stand at an external call.
InFlight(st) == {j \in 1..Len(st) : st[j].pc \in {"gpt", "request"}}

\* Where the k-th of the texts ss begins in their join, less one.
RECURSIVE Offset(_, _)
Offset(ss, k) ==
    IF k <= 1 THEN 0 ELSE Offset(ss, k - 1) + Len(ss[k - 1]) + 1

\* text is the texts ss in their order with a separator between each two.
JoinedInOrder(text, ss) ==
    /\ Len(text) = Offset(ss, Len(ss) + 1) - 1
    /\ \A k \in 1..Len(ss) :
          /\ SubSeq(text, Offset(ss, k) + 1, Offset(ss, k) + Len(ss[k]))
                = ss[k]
          /\ k > 1 => text[Offset(ss, k)] = NN

\* Frame f of branch 3 holds, in section order, what the invocations on
\* its first sections returned, all of them returned and cached.
SummariesOfSections(f, c) ==
    \A k \in 1..Len(f.sums) :
        LET key == [fn |-> "summarize", text |-> f.segs[k],
                    params |-> f.params]
        IN  key \in DOMAIN c /\ c[key] = f.sums[k]

\* C15: branch 3 runs its calls one after the other, in order. Only the
\* innermost invocation is active and every other one waits for it in
\* branch 3, so at most one external call is in flight; the invocation on
\* section i is there only when the i - 1 sections before it have
\* returned, and a waiting invocation moves one section on only when the
\* one it called has come back; the joined text is called on only when
\* every section has its summary, and it is those summaries joined in
\* section order.
C15_Branch3Sequential ==
    [][/\ Cardinality(InFlight(stack')) <= 1
       /\ InFlight(stack') \subseteq {Len(stack')}
       /\ \A j \in 1..Len(stack') :
            LET f == stack'[j]
            IN  /\ j < Len(stack') => f.pc \in {"segs", "joined"}
                /\ f.pc \in {"segs", "joined"} =>
                      SummariesOfSections(f, cache')
                /\ f.pc = "segs" =>
                      /\ f.i \in 1..(Len(f.segs) + 1)
                      /\ Len(f.sums) = f.i - 1
                      /\ j < Len(stack') =>
                            /\ Len(stack') = j + 1
                            /\ f.i <= Len(f.segs)
                            /\ stack'[j + 1].text = f.segs[f.i]
                            /\ stack'[j + 1].params = f.params
                /\ f.pc = "joined" =>
                      /\ Len(f.sums) = Len(f.segs)
                      /\ j < Len(stack')
                      /\ JoinedInOrder(stack'[j + 1].text, f.sums)
                      /\ stack'[j + 1].params = f.params
       /\ \A j \in 1..Len(stack) :
            (/\ stack[j].pc = "segs"
             /\ j <= Len(stack')
             /\ stack'[j] # stack[j]) =>
                \/ /\ j = Len(stack)
                   /\ stack[j].i > Len(stack[j].segs)
                   /\ stack'[j] = [stack[j] EXCEPT !.pc = "joined"]
                \/ /\ Len(stack) = j + 1
                   /\ Len(stack') = j
                   /\ Top.pc \in {"call", "ret"}
                   /\ stack'[j].i = stack[j].i + 1
                   /\ \E v \in {Top.val, cache'[CacheKey(Top)]} :
                         stack'[j] = [stack[j] EXCEPT
                                         !.i = @ + 1,
                                         !.sums = Append(@, v)]
      ]_vars

\* C15's case: two sections got different summaries, and the external
\* call for their joined text has failed once and is being retried.
C15_Witness ==
    /\ Len(stack) = 2
    /\ stack[1].pc = "joined"
    /\ Len(stack[1].sums) = 2
    /\ stack[1].sums[1] # stack[1].sums[2]
    /\ stack[2].pc = "gpt"
    /\ stack[2].gpt.tries >= 1

\* The innermost invocation stands in gpt_summarize and, after the step,
\* is still the innermost one, at position p of its code.
GptStepTo(p) ==
    /\ stack # <<>>
    /\ Top.pc = "gpt"
    /\ Len(stack') = Len(stack)
    /\ stack'[Len(stack)].pc = p

\* C16: a retryable failure on attempt 1 or 2 is absorbed by the loop. The
\* failed attempt changes nothing but the loop's own count of attempts and
\* sleeps: the usage counter, the cache and every caller are as before
\* and no error is recorded. The attempt that succeeds after j failures is
\* attempt j + 1 after j sleeps, yields the completion between the
\* markers, and adds the usage of that one call to actual_tokens, the
\* only change the counter sees. The value then goes back and is cached
\* exactly as after a success on the first try.
C16_RetryThenSuccess ==
    [][/\ GptStepTo("gpt") =>
            /\ stack'[Len(stack)].gpt.tries = Top.gpt.tries + 1
            /\ stack'[Len(stack)].gpt.slept = Top.gpt.slept + 1
            /\ Top.gpt.tries + 1 < MAX_ATTEMPTS
            /\ stack' = SetTop([Top EXCEPT !.gpt = stack'[Len(stack)].gpt])
            /\ UNCHANGED <<actual_tokens, cache, okCalls, err, scriptVars>>
       /\ GptStepTo("ret") =>
            LET f == stack'[Len(stack)]
                completion == SubSeq(f.val, 2, Len(f.val) - 1)
            IN  /\ Top.gpt.tries \in 0..(MAX_ATTEMPTS - 1)
                /\ Top.gpt.slept = Top.gpt.tries
                /\ f.gpt.tries = Top.gpt.tries + 1
                /\ f.gpt.slept = Top.gpt.tries
                /\ IsWrappedCompletion(f.val)
                /\ completion \in Completions
                /\ actual_tokens' = actual_tokens
                      + base_prompt_size(Top.params.target_summary_size)
                      + Len(Top.text) + Len(completion)
                /\ okCalls'[CacheKey(Top)] = 1
                /\ f = [Top EXCEPT !.pc = "ret", !.val = f.val,
                                   !.gpt.tries = @ + 1]
                /\ UNCHANGED <<cache, err, scriptVars>>
       /\ (stack # <<>> /\ Top.pc = "ret" /\ Top.gpt.tries >= 1) =>
            /\ IsWrappedCompletion(Top.val)
            /\ DOMAIN cache' = DOMAIN cache \cup {CacheKey(Top)}
            /\ cache'[CacheKey(Top)] = Top.val
            /\ Len(stack) = 1 => returned' = Append(returned, Top.val)
            /\ Len(stack) > 1 =>
                  \/ stack'[Len(stack) - 1].val = Top.val
                  \/ stack'[Len(stack) - 1].sums
                        = Append(stack[Len(stack) - 1].sums, Top.val)
            /\ UNCHANGED <<actual_tokens, err>>
            /\ pc' # "aborted"
      ]_vars

\* C16's case: the first attempt failed and was slept on, the second
\* succeeded; its usage is what the counter holds and no error is recorded.
C16_Witness ==
    /\ Len(stack) = 1
    /\ n = 1
    /\ stack[1].pc = "ret"
    /\ stack[1].gpt.tries = 2
    /\ stack[1].gpt.slept = 1
    /\ stack[1].gpt.exc.class \in CaughtClasses
    /\ actual_tokens = 1 + Len(book) + Len(stack[1].val) - 2
    /\ err.exc = NoExc

\* C17 as stated: the k-th wait is at least k * k seconds and less than
\* 5 * k * k seconds.
C17_WaitBelowFiveKSquared ==
    \A j \in 1..Len(stack) :
        (stack[j].pc = "gpt" /\ stack[j].gpt.tries >= 1) =>
            LET k == stack[j].gpt.tries
            IN  /\ k * k * OneSecond <= stack[j].gpt.random_wait
                /\ stack[j].gpt.random_wait < 5 * k * k * OneSecond

\* C17, amended: gpt_summarize sleeps only after a failed attempt k < 3
\* whose error is of a caught class and does not forbid the retry, once,
\* before attempt k + 1, for base * k * k seconds with 1 <= base <= 5: the
\* k-th wait is at least k * k and at most 5 * k * k seconds, the upper
\* end included. No sleep follows a success, and none follows the failure
\* that ends the call: the 3rd one, a non-retryable one, or one of no
\* caught class.
C17_SleepOnlyBetweenAttempts ==
    [][/\ GptStepTo("gpt") =>
            LET g == stack'[Len(stack)].gpt
                k == g.tries
            IN  /\ k = Top.gpt.tries + 1
                /\ k < MAX_ATTEMPTS
                /\ g.exc.class \in CaughtClasses
                /\ g.exc.should_retry
                /\ g.slept = Top.gpt.slept + 1
                /\ g.slept = k
                /\ \E m \in 0..(2 ^ FloatBits - 1) :
                      g.random_wait = BaseWait(m) * k * k
                /\ k * k * OneSecond <= g.random_wait
                /\ g.random_wait <= 5 * k * k * OneSecond
       /\ GptStepTo("ret") =>
            /\ stack'[Len(stack)].gpt.slept = Top.gpt.slept
            /\ stack'[Len(stack)].gpt.random_wait = Top.gpt.random_wait
       /\ (stack # <<>> /\ Top.pc = "gpt" /\ pc' = "aborted") =>
            /\ err'.tries = Top.gpt.tries + 1
            /\ err'.slept = Top.gpt.slept
            /\ err'.slept = err'.tries - 1
            /\ (err'.exc.class \in CaughtClasses /\ err'.exc.should_retry)
                  => err'.tries = MAX_ATTEMPTS
       /\ \A j \in 1..Len(stack) :
            (j <= Len(stack') /\ stack'[j].gpt.slept # stack[j].gpt.slept)
                => j = Len(stack) /\ GptStepTo("gpt")
      ]_vars

\* C17's case: the second attempt failed after the generator's largest
\* draw, and the wait before the third is the full 5 * 2 * 2 seconds.
C17_Witness ==
    /\ stack # <<>>
    /\ Top.pc = "gpt"
    /\ Top.gpt.tries = 2
    /\ Top.gpt.slept = 2
    /\ Top.gpt.random_wait = 5 * 2 * 2 * OneSecond

\* The run was ended by an exception raised by the request of
\* synthesize_summaries.
AbortedInSynthRequest ==
    /\ pc = "aborted"
    /\ \E k \in err.keys : IsSynthKey(k)
    /\ err.exc.class # "AssertionError"

\* C18: an invocation of synthesize_summaries whose prompt is within the
\* limit sends one request and has no retry loop. It keeps no count of
\* attempts and never sleeps; when the request fails, with a transient
\* error too, the run ends after that one attempt with nothing returned
\* and no cache entry for the invocation; when it succeeds, the one
\* completion received is returned as it is, without markers, and cached
\* under the invocation's own arguments.
C18_SynthOneRequestNoRetry ==
    /\ \A j \in 1..Len(stack) :
          IsSynthKey(CacheKey(stack[j])) =>
              /\ Len(stack) = 1
              /\ stack[j].gpt = NoGpt
              /\ stack[j].pc \in {"call", "body", "request", "ret"}
              /\ CacheKey(stack[j]) \notin DOMAIN cache
              /\ stack[j].pc \in {"call", "body", "request"} =>
                    CacheKey(stack[j]) \notin DOMAIN okCalls
              /\ stack[j].pc = "ret" =>
                    /\ okCalls[CacheKey(stack[j])] = 1
                    /\ stack[j].val \in Completions
                    /\ ~HasMarkers(stack[j].val)
    /\ pc = "done" =>
          LET key == CacheKey(SynthFrame(summaries))
          IN  /\ {k \in DOMAIN cache : IsSynthKey(k)} = {key}
              /\ cache[key] = final
              /\ final \in Completions
              /\ ~HasMarkers(final)
              /\ okCalls[key] = 1
    /\ AbortedInSynthRequest =>
          /\ err.tries = 1
          /\ err.slept = 0
          /\ stack = <<>>
          /\ final = NoText
          /\ \A k \in DOMAIN cache \cup DOMAIN okCalls : ~IsSynthKey(k)

\* C18's case: the one request failed with a transient error of a caught
\* class, which gpt_summarize would have retried, and the run ended.
C18_Witness ==
    /\ AbortedInSynthRequest
    /\ err.exc.class \in CaughtClasses
    /\ err.exc.should_retry
    /\ err.tries = 1

\* The run was ended by an exception of no caught class raised by the
\* external call of gpt_summarize.
AbortedByUncaught ==
    AbortedInSummarize /\ err.exc.class = "Other"

\* C19 as stated: an error of no caught class leaves gpt_summarize after
\* exactly one attempt and no sleep.
C19_UncaughtAfterOneAttempt ==
    AbortedByUncaught => (err.tries = 1 /\ err.slept = 0)

\* C19, amended: an error of no caught class leaves gpt_summarize from the
\* attempt that raised it. That attempt is not retried and not slept on:
\* the invocation never stands before a further attempt with such an
\* error in hand; the attempts made are the earlier, retried ones and
\* this one, the sleeps those of the earlier ones only, so that an error
\* on the first attempt ends the call after exactly one attempt and no
\* sleep; actual_tokens, the cache and the completions received are left
\* as they were.
C19_UncaughtNotRetried ==
    [][/\ \A j \in 1..Len(stack') : stack'[j].gpt.exc.class # "Other"
       /\ (/\ stack # <<>>
           /\ Top.pc = "gpt"
           /\ pc' = "aborted"
           /\ err'.exc.class = "Other") =>
            /\ err'.tries = Top.gpt.tries + 1
            /\ err'.tries <= MAX_ATTEMPTS
            /\ err'.slept = Top.gpt.slept
            /\ err'.slept = err'.tries - 1
            /\ Top.gpt.tries = 0 => (err'.tries = 1 /\ err'.slept = 0)
            /\ stack' = <<>>
            /\ UNCHANGED <<actual_tokens, cache, okCalls, returned,
                           summaries>>
      ]_vars

\* C19's case: the first attempt failed with a caught error and was slept
\* on; the second raised an error of no caught class, which ended the run.
C19_Witness ==
    /\ AbortedByUncaught
    /\ err.tries = 2
    /\ err.slept = 1

====
